---- MODULE Spec2Model ----
(***************************************************************************)
(* Model of the log views of brainzbot-core                                *)
(* (botbot/apps/logs/views.py) and of the logger plugin that feeds them    *)
(* (botbot/apps/plugins/core/logger.py).                                   *)
(*                                                                         *)
(* Time is counted in ticks; a day is DayLen ticks.  An instant is the     *)
(* number of ticks since the start of proleptic Gregorian day 0 in UTC, so *)
(* the UTC date of instant t is the ordinal t \div DayLen.  A datetime at  *)
(* local midnight is a record [ord, off]: the ordinal of the local date    *)
(* and the UTC offset of its zone in ticks.  Timezones are fixed-offset    *)
(* zones (UTC and the Etc/GMT zones).                                      *)
(*                                                                         *)
(* URL keyword arguments and query parameters are strings, as they are in  *)
(* a request; NoArg marks a key that is not present.                       *)
(***************************************************************************)
EXTENDS Integers, Sequences, FiniteSets, TLC

VARIABLES logs, now, cache, req, resp, timeline, resolutions, shared

vars == <<logs, now, cache, req, resp, timeline, resolutions, shared>>

-----------------------------------------------------------------------------
(* Bounds of the model *)

MaxLogs == 3

MaxTick == 4

MaxHidden == 1

\* page size of the views; the source sets 150 (views.py:194)
paginate_by == 2

\* ticks in timedelta(days=1)
DayLen == 2

\* the catalog holds dates of the MaxAge days before the first day of the
\* model, and today is one of the MaxToday days after it
MaxAge == 9

MaxToday == 6

\* permalink resolutions in flight at the same time
MaxResolutions == 2

-----------------------------------------------------------------------------
(* Strings, integers and the calendar *)

NoArg == "<absent>"

\* "%02d" % n
Pad2(n) ==
  IF n < 10 THEN "0" \o ToString(n) ELSE ToString(n)

\* str(n), as urlencode writes an integer parameter
Str(n) ==
  ToString(n)

FirstYear == 2023

LastYear == 2025

\* the integers the strings of this model can denote
IntLiterals ==
  (0 .. 31) \cup (FirstYear .. LastYear)

\* the strings int() accepts, with their values
IntTable ==
  [s \in {Str(n) : n \in IntLiterals} \cup {Pad2(n) : n \in 0 .. 9} |->
     CHOOSE n \in IntLiterals : s \in {Str(n), Pad2(n)}]

\* int(s) raises ValueError
int_fails(s) ==
  s \notin DOMAIN IntTable

\* int(s)
int(s) ==
  IntTable[s]

IsLeap(y) ==
  y % 4 = 0 /\ (y % 100 # 0 \/ y % 400 = 0)

DaysInMonth(y, m) ==
  IF m = 2 THEN (IF IsLeap(y) THEN 29 ELSE 28)
  ELSE IF m \in {4, 6, 9, 11} THEN 30 ELSE 31

DaysBeforeYear(y) ==
  (y - 1) * 365 + (y - 1) \div 4 - (y - 1) \div 100 + (y - 1) \div 400

RECURSIVE DaysBeforeMonth(_, _)
DaysBeforeMonth(y, m) ==
  IF m = 1 THEN 0 ELSE DaysBeforeMonth(y, m - 1) + DaysInMonth(y, m - 1)

\* datetime.datetime(year, month, day) raises ValueError
DateFails(y, m, d) ==
  ~ (y \in 1 .. 9999 /\ m \in 1 .. 12 /\ d \in 1 .. DaysInMonth(y, m))

\* date.toordinal()
ymd2ord(y, m, d) ==
  DaysBeforeYear(y) + DaysBeforeMonth(y, m) + d

\* date.fromordinal(n), as [year, month, day]
ord2ymd(n) ==
  LET y == CHOOSE yy \in FirstYear .. LastYear :
             DaysBeforeYear(yy) < n /\ n <= DaysBeforeYear(yy + 1)
      r == n - DaysBeforeYear(y)
      m == CHOOSE mm \in 1 .. 12 :
             DaysBeforeMonth(y, mm) < r /\ r <= DaysBeforeMonth(y, mm) + DaysInMonth(y, mm)
  IN [year |-> y, month |-> m, day |-> r - DaysBeforeMonth(y, m)]

\* the first instant of the model: 2024-02-28 00:00 UTC
StartTick ==
  ymd2ord(2024, 2, 28) * DayLen

\* the instant a datetime [ord, off] denotes
Instant(d) ==
  d.ord * DayLen - d.off

\* d + datetime.timedelta(days=1)
PlusOneDay(d) ==
  [d EXCEPT !.ord = d.ord + 1]

\* _utc_now().date()
utc_today ==
  [ord |-> now \div DayLen, off |-> 0]

-----------------------------------------------------------------------------
(* The message store *)

Commands == {"PRIVMSG", "MODE"}

\* Channel.visible_commands_filter
visible_commands_filter(m) ==
  m.command = "PRIVMSG"

RECURSIVE OrderByTimestamp(_, _)
\* queryset.order_by("timestamp") / order_by("-timestamp"); rows of equal
\* timestamp come in primary-key order
OrderByTimestamp(s, descending) ==
  IF s = <<>> THEN <<>>
  ELSE LET Before(a, b) ==
             IF descending
             THEN a.timestamp > b.timestamp \/ (a.timestamp = b.timestamp /\ a.pk < b.pk)
             ELSE a.timestamp < b.timestamp \/ (a.timestamp = b.timestamp /\ a.pk < b.pk)
           i == CHOOSE k \in 1 .. Len(s) :
                  \A j \in 1 .. Len(s) : j # k => Before(s[k], s[j])
       IN <<s[i]>> \o OrderByTimestamp(SubSeq(s, 1, i - 1) \o SubSeq(s, i + 1, Len(s)),
                                        descending)

\* Channel.filtered_logs(): the visible rows, in the default order of Log
\* (latest first)
filtered_logs ==
  SelectSeq(OrderByTimestamp(logs, TRUE), visible_commands_filter)

NoRequest == [kind |-> "none"]

NoResponse == [status |-> 0]

\* a nick is the sequence of its characters
ChannelNick == <<"b", "o">>

\* the store has room for a row of this command: the hidden rows stay
\* within MaxHidden
HiddenWithinBound(command) ==
  \/ visible_commands_filter([command |-> command])
  \/ Cardinality({i \in 1 .. Len(logs) : ~ visible_commands_filter(logs[i])}) < MaxHidden

\* Plugin.logit: a line received now on the channel is stored
logit(nick, command) ==
  /\ req = NoRequest
  /\ Len(logs) < MaxLogs
  /\ logs' = Append(logs, [pk |-> Len(logs) + 1, timestamp |-> now, nick |-> nick,
                           command |-> command])
  /\ UNCHANGED <<now, cache, req, resp, timeline, resolutions, shared>>

\* the clock advances
Tick ==
  /\ req = NoRequest
  /\ now < StartTick + MaxTick
  /\ now' = now + 1
  /\ UNCHANGED <<logs, cache, req, resp, timeline, resolutions, shared>>

\* the response is handed to the client and the next request can be served
Respond ==
  /\ req # NoRequest
  /\ req' = NoRequest
  /\ resp' = NoResponse
  /\ UNCHANGED <<logs, now, cache, timeline, resolutions, shared>>

-----------------------------------------------------------------------------
(* Requests, links and responses *)

\* the zones pytz knows, with the UTC offsets they have at the instants of
\* the model, in whole ticks: Etc/GMT-12 and Pacific/Tarawa are both UTC+12
KnownZones ==
  [z \in {"UTC", "Etc/GMT-12", "Pacific/Tarawa"} |-> IF z = "UTC" THEN 0 ELSE DayLen \div 2]

\* the zones pytz builds from a table of transitions, with the first offset
\* of the table, the local mean time of the place: +11:32 for
\* Pacific/Tarawa, in whole ticks
LocalMeanTime ==
  [z \in {"Pacific/Tarawa"} |-> (DayLen - 1) \div 2]

\* request_timezone falling back to another zone than UTC
request_timezone_other_fallback(r) ==
  LET name == IF r.GET.tz = NoArg THEN "" ELSE r.GET.tz
  IN IF name \in DOMAIN KnownZones THEN KnownZones[name] ELSE KnownZones["Etc/GMT-12"]

\* DayLogViewer.request_timezone, as the UTC offset of the zone
request_timezone(r) ==
  LET name == IF r.GET.tz = NoArg THEN "" ELSE r.GET.tz
  IN IF name \in DOMAIN KnownZones THEN KnownZones[name] ELSE KnownZones["UTC"]

\* the offset of datetime.datetime(..., tzinfo=self.request_timezone): the
\* constructor attaches the zone as pytz.timezone returned it, which for a
\* zone with a table of transitions stands at the first entry of the table
tzinfo_utcoffset(r) ==
  LET name == IF r.GET.tz = NoArg THEN "" ELSE r.GET.tz
  IN IF name \in DOMAIN LocalMeanTime THEN LocalMeanTime[name] ELSE request_timezone(r)

\* the empty string and None, where a link is expected
EmptyString ==
  [view |-> "", year |-> "", month |-> "", day |-> "", page |-> "", tz |-> "", msg |-> ""]

None ==
  [view |-> "None", year |-> "", month |-> "", day |-> "", page |-> "", tz |-> "", msg |-> ""]

NoneDate == [ord |-> 0, off |-> 0]

\* LogViewer._setup_response_format
_setup_response_format(r) ==
  IF r.format = "text" THEN "text"
  ELSE IF r.is_ajax THEN "ajax" ELSE "html"

\* LogDateMixin._kwargs_with_date
_kwargs_with_date(date) ==
  LET d == ord2ymd(date.ord)
  IN [year |-> Str(d.year), month |-> Pad2(d.month), day |-> Pad2(d.day)]

\* LogDateMixin.channel_date_url
channel_date_url(r, date) ==
  LET viewname == IF _setup_response_format(r) = "text" THEN "log_day_text" ELSE "log_day"
      kwargs == _kwargs_with_date(date)
  IN [view |-> viewname, year |-> kwargs.year, month |-> kwargs.month, day |-> kwargs.day]

\* f"{url}?{params.urlencode()}"
Link(url, params) ==
  [view |-> url.view, year |-> url.year, month |-> url.month, day |-> url.day,
   page |-> params.page, tz |-> params.tz, msg |-> params.msg]

\* a URL without a query string
BareLink(url) ==
  Link(url, [page |-> NoArg, tz |-> NoArg, msg |-> NoArg])

Http404(reason) ==
  [status |-> 404, reason |-> reason]

redirect(location, permanent) ==
  [status |-> IF permanent THEN 301 ELSE 302, location |-> location]

\* _local_date_at_midnight taking the date of the timestamp in UTC
_local_date_at_midnight_utc(timestamp, off) ==
  [ord |-> timestamp \div DayLen, off |-> off]

\* LogDateMixin._local_date_at_midnight
_local_date_at_midnight(timestamp, off) ==
  [ord |-> (timestamp + off) \div DayLen, off |-> off]

\* LogDateMixin._get_previous_date
_get_previous_date(r, date) ==
  LET qs == SelectSeq(filtered_logs, LAMBDA m : m.timestamp < Instant(date))
  IN IF qs = <<>> THEN NoneDate
     ELSE _local_date_at_midnight(qs[1].timestamp, request_timezone(r))

\* LogDateMixin._get_next_date
_get_next_date(r, date) ==
  LET qs == OrderByTimestamp(
              SelectSeq(filtered_logs, LAMBDA m : m.timestamp >= Instant(PlusOneDay(date))),
              FALSE)
  IN IF qs = <<>> THEN NoneDate
     ELSE _local_date_at_midnight(qs[1].timestamp, request_timezone(r))

\* LogDateMixin._date_query_set
_date_query_set(date) ==
  SelectSeq(filtered_logs,
            LAMBDA m : m.timestamp >= Instant(date) /\ m.timestamp < Instant(PlusOneDay(date)))

\* LogViewer.newest_first, as DayLogViewer inherits it
newest_first == FALSE

\* DayLogViewer.allow_empty
allow_empty == TRUE

\* get_ordered_queryset with the latest message first
get_ordered_queryset_newest_first(queryset) ==
  OrderByTimestamp(queryset, TRUE)

\* LogViewer.get_ordered_queryset
get_ordered_queryset(queryset) ==
  OrderByTimestamp(queryset, newest_first)

\* DayLogViewer.get_queryset
get_queryset(date) ==
  LET start == Instant(date)
      end == Instant(PlusOneDay(date))
  IN SelectSeq(get_ordered_queryset(filtered_logs),
               LAMBDA m : m.timestamp >= start /\ m.timestamp < end)

-----------------------------------------------------------------------------
(* Pagination *)

\* Paginator.num_pages of django.core.paginator, without orphans
num_pages(count, allow_empty_first_page) ==
  IF count = 0 /\ ~ allow_empty_first_page THEN 0
  ELSE LET hits == IF count > 1 THEN count ELSE 1
       IN (hits + paginate_by - 1) \div paginate_by

\* Paginator.page(number).object_list
page_object_list(object_list, number) ==
  LET bottom == (number - 1) * paginate_by
      top == IF bottom + paginate_by > Len(object_list) THEN Len(object_list)
             ELSE bottom + paginate_by
  IN SubSeq(object_list, bottom + 1, top)

\* DayLogViewer._date_paginator(date).num_pages
_date_paginator(date) ==
  num_pages(Len(_date_query_set(date)), TRUE)

\* MultipleObjectMixin.paginate_queryset of django.views.generic.list: the
\* page the request names, or Http404
django_paginate_queryset(r, page_kwarg, queryset) ==
  LET nump == num_pages(Len(queryset), allow_empty)
      page == IF page_kwarg \notin {NoArg, ""} THEN page_kwarg
              ELSE IF r.GET.page \notin {NoArg, ""} THEN r.GET.page
              ELSE "1"
      bad == int_fails(page) /\ page # "last"
      number == IF int_fails(page) THEN nump ELSE int(page)
  IN IF bad THEN [raised |-> TRUE, reason |-> "Page is not 'last', nor can it be converted to an int."]
     ELSE IF number < 1 \/ (number > nump /\ ~ (number = 1 /\ allow_empty))
     THEN [raised |-> TRUE, reason |-> "Invalid page"]
     ELSE [raised |-> FALSE, number |-> number, num_pages |-> nump,
           object_list |-> page_object_list(queryset, number)]

\* get_previous_page_link entering the previous day at its first page
get_previous_page_link_first_page(r, date, page) ==
  IF ~ (page.number > 1)
  THEN LET prev == _get_previous_date(r, date)
       IN IF prev = NoneDate THEN None
          ELSE Link(channel_date_url(r, prev), [r.GET EXCEPT !.page = Str(1)])
  ELSE Link(channel_date_url(r, date), [r.GET EXCEPT !.page = Str(page.number - 1)])

\* DayLogViewer.get_previous_page_link
get_previous_page_link(r, date, page) ==
  IF ~ (page.number > 1)
  THEN LET prev == _get_previous_date(r, date)
       IN IF prev = NoneDate THEN None
          ELSE Link(channel_date_url(r, prev),
                    [r.GET EXCEPT !.page = Str(_date_paginator(prev))])
  ELSE Link(channel_date_url(r, date), [r.GET EXCEPT !.page = Str(page.number - 1)])

\* get_next_page_link keeping the URL of the day shown when it enters the
\* next day
get_next_page_link_keeps_day(r, date, page) ==
  IF ~ (page.number < page.num_pages)
  THEN LET next == _get_next_date(r, date)
       IN IF next # NoneDate
          THEN Link(channel_date_url(r, date), [r.GET EXCEPT !.page = Str(1)])
          ELSE EmptyString
  ELSE Link(channel_date_url(r, date), [r.GET EXCEPT !.page = Str(page.number + 1)])

\* DayLogViewer.get_next_page_link
get_next_page_link(r, date, page) ==
  IF ~ (page.number < page.num_pages)
  THEN LET next == _get_next_date(r, date)
       IN IF next # NoneDate
          THEN Link(channel_date_url(r, next), [r.GET EXCEPT !.page = Str(1)])
          ELSE EmptyString
  ELSE Link(channel_date_url(r, date), [r.GET EXCEPT !.page = Str(page.number + 1)])

\* DayLogViewer.get_current_page_link
get_current_page_link(r, page) ==
  Link(channel_date_url(r, utc_today), [r.GET EXCEPT !.page = Str(page.number)])

\* paginate_queryset showing the last page when the page asked for is invalid
paginate_queryset_clamps(r, date, page_kwarg, queryset) ==
  LET asked == django_paginate_queryset(r, page_kwarg, queryset)
      page == IF asked.raised
              THEN django_paginate_queryset([r EXCEPT !.GET.page = "last"], page_kwarg, queryset)
              ELSE asked
      next_page == get_next_page_link(r, date, page)
  IN [raised |-> FALSE,
      number |-> page.number,
      num_pages |-> page.num_pages,
      object_list |-> page.object_list,
      next_page |-> next_page,
      prev_page |-> get_previous_page_link(r, date, page),
      current_page |-> get_current_page_link(r, page),
      is_current |-> (next_page \in {EmptyString, None})]

\* PaginatorPageLinksMixin.paginate_queryset followed by
\* DayLogViewer.paginate_queryset
paginate_queryset(r, date, page_kwarg, queryset) ==
  LET page == django_paginate_queryset(r, page_kwarg, queryset)
  IN IF page.raised THEN page
     ELSE LET next_page == get_next_page_link(r, date, page)
          IN [raised |-> FALSE,
              number |-> page.number,
              num_pages |-> page.num_pages,
              object_list |-> page.object_list,
              next_page |-> next_page,
              prev_page |-> get_previous_page_link(r, date, page),
              current_page |-> get_current_page_link(r, page),
              is_current |-> (next_page \in {EmptyString, None})]

-----------------------------------------------------------------------------
(* The day view *)

\* set_view_date taking the date branch when any of the fields is given
set_view_date_any(r) ==
  IF \E field \in {"year", "month", "day"} : r.kwargs[field] # NoArg
  THEN IF \/ \E field \in {"year", "month", "day"} : int_fails(r.kwargs[field])
          \/ DateFails(int(r.kwargs.year), int(r.kwargs.month), int(r.kwargs.day))
       THEN [raised |-> TRUE, reason |-> "Invalid date."]
       ELSE [raised |-> FALSE,
             date |-> [ord |-> ymd2ord(int(r.kwargs.year), int(r.kwargs.month),
                                       int(r.kwargs.day)),
                       off |-> tzinfo_utcoffset(r)],
             page |-> NoArg]
  ELSE [raised |-> FALSE, date |-> utc_today, page |-> "last"]

\* DayLogViewer.set_view_date: the start of the day to show and the page
\* keyword argument it leaves behind, or Http404
set_view_date(r) ==
  IF \A field \in {"year", "month", "day"} : r.kwargs[field] # NoArg
  THEN IF \/ \E field \in {"year", "month", "day"} : int_fails(r.kwargs[field])
          \/ DateFails(int(r.kwargs.year), int(r.kwargs.month), int(r.kwargs.day))
       THEN [raised |-> TRUE, reason |-> "Invalid date."]
       ELSE [raised |-> FALSE,
             date |-> [ord |-> ymd2ord(int(r.kwargs.year), int(r.kwargs.month),
                                       int(r.kwargs.day)),
                       off |-> tzinfo_utcoffset(r)],
             page |-> NoArg]
  ELSE [raised |-> FALSE, date |-> utc_today, page |-> "last"]

\* DayLogViewer._nearby_log_url
_nearby_log_url(r, date) ==
  LET past == SelectSeq(OrderByTimestamp(filtered_logs, TRUE),
                        LAMBDA m : m.timestamp <= Instant(date))
      closet_qs == IF past # <<>> THEN past
                   ELSE SelectSeq(OrderByTimestamp(filtered_logs, FALSE),
                                  LAMBDA m : m.timestamp >= Instant(date))
  IN IF closet_qs = <<>> THEN None
     ELSE BareLink(channel_date_url(r, [ord |-> closet_qs[1].timestamp \div DayLen, off |-> 0]))

Pks(queryset) ==
  [i \in 1 .. Len(queryset) |-> queryset[i].pk]

\* render_to_response marking every page that has a next link as public
render_to_response_public_to_all(r, page) ==
  LET has_next_page == page.next_page \notin {EmptyString, None}
  IN [cache_control |-> IF has_next_page THEN "public" ELSE "private"]

\* LogViewer.render_to_response: the Cache-Control it patches into the
\* response.  has_next_page is set, in the HTML branch and in the other
\* alike, when self.next_page is neither "" nor None.
render_to_response(r, page) ==
  LET has_next_page == page.next_page \notin {EmptyString, None}
  IN [cache_control |-> IF has_next_page /\ r.is_anonymous THEN "public" ELSE "private"]

\* DayLogViewer.get: the response to request r
DayLogViewer_get(r) ==
  LET view_date == set_view_date(r)
  IN IF view_date.raised THEN Http404(view_date.reason)
     ELSE LET date == view_date.date
              object_list == get_queryset(date)
          IN IF ~ allow_empty /\ object_list = <<>>
             THEN LET url == _nearby_log_url(r, date)
                  IN IF url # None THEN redirect(url, FALSE)
                     ELSE Http404("Empty list and 'DayLogViewer.allow_empty' is False.")
             ELSE LET page == paginate_queryset(r, date, view_date.page, object_list)
                  IN IF page.raised THEN Http404(page.reason)
                     ELSE [status |-> 200,
                           date |-> date,
                           number |-> page.number,
                           message_list |-> Pks(page.object_list),
                           next_page |-> page.next_page,
                           prev_page |-> page.prev_page,
                           current_page |-> page.current_page,
                           is_current |-> page.is_current,
                           cache_control |-> render_to_response(r, page).cache_control]

\* keyword arguments that name a day of the model's calendar window, or none
DateKwargs ==
  {[year |-> "2024", month |-> "02", day |-> "28"],
   [year |-> "2024", month |-> "02", day |-> "29"],
   [year |-> "2024", month |-> "03", day |-> "01"],
   [year |-> NoArg, month |-> NoArg, day |-> NoArg]}

\* keyword arguments that name no day: an impossible date, a month that is
\* no integer, a date without its day
BadDateKwargs ==
  {[year |-> "2024", month |-> "02", day |-> "30"],
   [year |-> "2024", month |-> "13", day |-> "01"],
   [year |-> "2024", month |-> "xx", day |-> "01"],
   [year |-> "2024", month |-> "02", day |-> NoArg]}

PageArgs == {NoArg, "last", "2", "3"}

TzArgs == {NoArg, "UTC", "Mars/Phobos", "Etc/GMT-12"}

\* the requests for the day view: every page and zone for the days of the
\* window in the HTML view, and the plain request otherwise
DayRequests ==
  {r \in [kind : {"day"}, kwargs : DateKwargs \cup BadDateKwargs,
          GET : [page : PageArgs, tz : TzArgs, msg : {NoArg}],
          format : {"", "text"}, is_ajax : {FALSE}, is_anonymous : {TRUE}] :
     (r.format = "text" \/ r.kwargs \in BadDateKwargs) =>
        (r.GET.page = NoArg /\ r.GET.tz = NoArg /\
           (r.kwargs \in BadDateKwargs => r.format = ""))}

\* a day view is requested and answered
DayGet ==
  \E r \in DayRequests :
    /\ req = NoRequest
    /\ req' = r
    /\ resp' = DayLogViewer_get(r)
    /\ UNCHANGED <<logs, now, cache, timeline, resolutions, shared>>

\* the request a client makes when it follows a link to a day view
FollowLink(link) ==
  [kind |-> "day",
   kwargs |-> [year |-> link.year, month |-> link.month, day |-> link.day],
   GET |-> [page |-> link.page, tz |-> link.tz, msg |-> link.msg],
   format |-> IF link.view = "log_day_text" THEN "text" ELSE "",
   is_ajax |-> FALSE,
   is_anonymous |-> TRUE]

\* the requests of a reader who pages through the days: a day of the
\* window or none, the first or the second page, in UTC or in a zone east
\* of it
NavRequests ==
  [kind : {"day"}, kwargs : DateKwargs,
   GET : [page : {NoArg, "2"}, tz : {NoArg, "Etc/GMT-12", "Pacific/Tarawa"}, msg : {NoArg}],
   format : {""}, is_ajax : {FALSE}, is_anonymous : {TRUE}]

\* the same requests, from readers who are logged in or not
UserRequests ==
  NavRequests \cup {[r EXCEPT !.is_anonymous = FALSE] : r \in NavRequests}

\* a day view is requested by such a reader and answered
NavGet ==
  \E r \in NavRequests :
    /\ req = NoRequest
    /\ req' = r
    /\ resp' = DayLogViewer_get(r)
    /\ UNCHANGED <<logs, now, cache, timeline, resolutions, shared>>

\* a shared cache that holds no response
NoShared == [r |-> NoRequest]

\* a request passes through a shared cache, which keeps the response of
\* DayLogViewer.get when the response is marked public
SharedCacheFetch ==
  \E r \in UserRequests :
    /\ req = NoRequest
    /\ shared' = [r |-> r, response |-> DayLogViewer_get(r)]
    /\ shared'.response.status = 200
    /\ shared'.response.cache_control = "public"
    /\ UNCHANGED <<logs, now, cache, req, resp, timeline, resolutions>>

-----------------------------------------------------------------------------
(* The permalink view *)

\* f"line:{log.pk}:permalink"
cache_key(log) ==
  log.pk

\* cache.get(cache_key, [None, {}])
cache_get(key) ==
  IF key \in DOMAIN cache THEN cache[key]
  ELSE [url |-> None, params |-> [msg |-> NoArg, page |-> NoArg]]

\* cache.set(cache_key, value, timeout)
cache_set(key, value, timeout) ==
  [k \in DOMAIN cache \cup {key} |->
     IF k = key THEN [url |-> value.url, params |-> value.params, timeout |-> timeout]
     ELSE cache[k]]

RECURSIVE ScanPages(_, _, _, _)

\* the scan counting pages from 0
ScanPages_zero_based(object_list, log, n, last) ==
  IF n > last THEN 0
  ELSE IF \E i \in DOMAIN page_object_list(object_list, n) :
            page_object_list(object_list, n)[i].pk = log.pk
       THEN n - 1
       ELSE ScanPages(object_list, log, n + 1, last)

\* the loop of SingleLogViewer._permalink_to_log over paginator.page_range,
\* from page n on: the first page that holds log, or 0 when no page does
ScanPages(object_list, log, n, last) ==
  IF n > last THEN 0
  ELSE IF \E i \in DOMAIN page_object_list(object_list, n) :
            page_object_list(object_list, n)[i].pk = log.pk
       THEN n
       ELSE ScanPages(object_list, log, n + 1, last)

\* _permalink_to_log scanning the pages whatever the cache holds
_permalink_to_log_ignores_cache(r, log, date, object_list) ==
  LET last == num_pages(Len(object_list), TRUE)
      n == ScanPages(object_list, log, 1, last)
      params == [msg |-> Str(log.pk), page |-> Str(n)]
      url == channel_date_url(r, date)
  IN IF n = 0
     THEN [raised |-> TRUE, pages_scanned |-> last, cache |-> cache]
     ELSE [raised |-> FALSE,
           link |-> Link(url, [r.GET EXCEPT !.msg = params.msg, !.page = params.page]),
           pages_scanned |-> n,
           cache |-> cache_set(cache_key(log), [url |-> url, params |-> params], "None")]

\* _permalink_to_log writing the cache entry before it knows the page
_permalink_to_log_caches_misses(r, log, date, object_list) ==
  LET cached == cache_get(cache_key(log))
  IN IF cached.url # None
     THEN [raised |-> FALSE,
           link |-> Link(cached.url, [r.GET EXCEPT !.msg = cached.params.msg,
                                                  !.page = cached.params.page]),
           pages_scanned |-> 0,
           cache |-> cache]
     ELSE LET last == num_pages(Len(object_list), TRUE)
              n == ScanPages(object_list, log, 1, last)
              params == [msg |-> Str(log.pk), page |-> Str(n)]
              url == channel_date_url(r, date)
          IN IF n = 0
             THEN [raised |-> TRUE, pages_scanned |-> last,
                   cache |-> cache_set(cache_key(log), [url |-> url, params |-> params], "None")]
             ELSE [raised |-> FALSE,
                   link |-> Link(url, [r.GET EXCEPT !.msg = params.msg, !.page = params.page]),
                   pages_scanned |-> n,
                   cache |-> cache_set(cache_key(log), [url |-> url, params |-> params], "None")]

\* SingleLogViewer._permalink_to_log: the link, the pages fetched on the way
\* and the cache it leaves, or Http404
_permalink_to_log(r, log, date, object_list) ==
  LET cached == cache_get(cache_key(log))
  IN IF cached.url # None
     THEN [raised |-> FALSE,
           link |-> Link(cached.url, [r.GET EXCEPT !.msg = cached.params.msg,
                                                  !.page = cached.params.page]),
           pages_scanned |-> 0,
           cache |-> cache]
     ELSE LET last == num_pages(Len(object_list), TRUE)
              n == ScanPages(object_list, log, 1, last)
              params == [msg |-> Str(log.pk), page |-> Str(n)]
              url == channel_date_url(r, date)
          IN IF n = 0
             THEN [raised |-> TRUE, pages_scanned |-> last, cache |-> cache]
             ELSE [raised |-> FALSE,
                   link |-> Link(url, [r.GET EXCEPT !.msg = params.msg, !.page = params.page]),
                   pages_scanned |-> n,
                   cache |-> cache_set(cache_key(log), [url |-> url, params |-> params], "None")]

\* get_object_or_404(Log.objects, pk=...): the rows with that key
LogObjects(pk) ==
  SelectSeq(logs, LAMBDA m : m.pk = pk)

\* SingleLogViewer.get: the response to request r and the cache it leaves
SingleLogViewer_get(r) ==
  IF int_fails(r.kwargs.msg_pk) \/ LogObjects(int(r.kwargs.msg_pk)) = <<>>
  THEN [response |-> [status |-> 404, reason |-> "No Log matches the given query.",
                      pages_scanned |-> 0],
        cache |-> cache]
  ELSE LET log == LogObjects(int(r.kwargs.msg_pk))[1]
           date == [ord |-> log.timestamp \div DayLen, off |-> 0]
           object_list == get_queryset(date)
           page_url == _permalink_to_log(r, log, date, object_list)
       IN IF page_url.raised
          THEN [response |-> [status |-> 404, reason |-> "",
                              pages_scanned |-> page_url.pages_scanned],
                cache |-> page_url.cache]
          ELSE [response |-> [status |-> 301, location |-> page_url.link,
                              pages_scanned |-> page_url.pages_scanned],
                cache |-> page_url.cache]

MsgPkArgs ==
  {Str(n) : n \in 1 .. MaxLogs + 1} \cup {"xx"}

PermalinkRequests ==
  [kind : {"permalink"}, kwargs : [msg_pk : MsgPkArgs],
   GET : [page : {NoArg}, tz : {NoArg, "Etc/GMT-12"}, msg : {NoArg}],
   format : {""}, is_ajax : {FALSE}]

\* a permalink is requested and answered
PermalinkGet ==
  \E r \in PermalinkRequests :
    /\ req = NoRequest
    /\ req' = r
    /\ resp' = SingleLogViewer_get(r).response
    /\ cache' = SingleLogViewer_get(r).cache
    /\ UNCHANGED <<logs, now, timeline, resolutions, shared>>

-----------------------------------------------------------------------------
(* The missed-activity view *)

\* datetime.timedelta(milliseconds=1): the clock of the model resolves one
\* millisecond per tick
Millisecond == 1

MissedCommands == {"PRIVMSG", "QUIT", "PART", "JOIN"}

\* the nicks that write to the channel
StoredNicks ==
  {<<"a", "l">>, <<"A", "L", "_">>, <<"a", "l", "|", "x">>, <<"a", "l", "x">>}

\* str.lower() of one character
LowerChar(c) ==
  IF c = "A" THEN "a" ELSE IF c = "L" THEN "l" ELSE IF c = "X" THEN "x" ELSE c

\* the lookup nick__iexact
iexact(value, pattern) ==
  /\ Len(value) = Len(pattern)
  /\ \A i \in 1 .. Len(value) : LowerChar(value[i]) = LowerChar(pattern[i])

\* the lookup nick__istartswith
istartswith(value, prefix) ==
  /\ Len(value) >= Len(prefix)
  /\ \A i \in 1 .. Len(prefix) : LowerChar(value[i]) = LowerChar(prefix[i])

\* Q(nick__iexact=nick) | Q(nick__istartswith=f"{nick}|") | Q(nick__iexact=f"{nick}_")
NickQ(m, nick) ==
  \/ iexact(m.nick, nick)
  \/ istartswith(m.nick, Append(nick, "|"))
  \/ iexact(m.nick, Append(nick, "_"))

\* the property MissedLogViewer.get_queryset: the rows it evaluates to and
\* the fetch_after it sets, or Http404
MissedLogViewer_get_queryset(r) ==
  LET queryset == get_ordered_queryset(logs)
      nick == r.kwargs.nick
      exits == OrderByTimestamp(
                 SelectSeq(queryset,
                           LAMBDA m : NickQ(m, nick) /\ m.command \in {"QUIT", "PART"}),
                 TRUE)
  IN IF exits = <<>> THEN [raised |-> TRUE, reason |-> "User hasn't left room"]
     ELSE LET last_exit == exits[1]
              joins == OrderByTimestamp(
                         SelectSeq(queryset,
                                   LAMBDA m : /\ NickQ(m, nick)
                                              /\ m.command = "JOIN"
                                              /\ m.timestamp > last_exit.timestamp),
                         FALSE)
              rows == IF joins # <<>>
                      THEN SelectSeq(queryset,
                                     LAMBDA m : /\ m.timestamp >= last_exit.timestamp
                                                /\ m.timestamp <= joins[1].timestamp)
                      ELSE SelectSeq(queryset, LAMBDA m : m.timestamp >= last_exit.timestamp)
          IN [raised |-> FALSE,
              fetch_after |-> last_exit.timestamp - Millisecond,
              queryset |-> rows]

\* an exception no handler of the view catches
ServerError(exception) ==
  [status |-> 500, reason |-> exception]

\* BaseListView.get of django.views.generic.list, as MissedLogViewer
\* inherits it: self.object_list = self.get_queryset().  get_queryset is a
\* property here, so the attribute is the QuerySet and the call is applied
\* to that QuerySet.
MissedLogViewer_get(r) ==
  LET attribute == MissedLogViewer_get_queryset(r)
  IN IF attribute.raised THEN Http404(attribute.reason)
     ELSE ServerError("TypeError: 'QuerySet' object is not callable")

MissedRequests ==
  [kind : {"missed"}, kwargs : [nick : {<<"a", "l">>, <<"A", "L">>}]]

\* the missed-activity view is requested and answered
MissedGet ==
  \E r \in MissedRequests :
    /\ req = NoRequest
    /\ req' = r
    /\ resp' = MissedLogViewer_get(r)
    /\ UNCHANGED <<logs, now, cache, timeline, resolutions, shared>>

-----------------------------------------------------------------------------
(* The timeline *)

\* date.weekday(): Monday is 0; day 1 of the calendar was a Monday
weekday(ord) ==
  (ord + 6) % 7

\* the dict {}
EmptyContext ==
  [empty |-> TRUE]

\* _timeline_context testing the start of this week before the start of
\* last week
_timeline_context_this_week_first(tl) ==
  IF tl = <<>> THEN [context |-> EmptyContext, timeline |-> tl]
  ELSE LET today == utc_today.ord
           last_monday == today - weekday(today)
           last_week == last_monday - 7
           popped == tl[Len(tl)]
           last_month == popped.value[Len(popped.value)]
           last_month_adjusted ==
             IF last_month >= last_monday THEN last_monday - 1
             ELSE IF last_month >= last_week THEN last_week - 1
             ELSE last_month
       IN [context |-> [empty |-> FALSE,
                        timeline |-> SubSeq(tl, 1, Len(tl) - 1),
                        this_week |-> last_monday,
                        last_week |-> last_week,
                        last_month |-> [real |-> last_month,
                                        adjusted |-> last_month_adjusted]],
           timeline |-> SubSeq(tl, 1, Len(tl) - 1)]

\* _timeline_context comparing the last month to the start of last week
\* with > instead of >=
_timeline_context_strict(tl) ==
  IF tl = <<>> THEN [context |-> EmptyContext, timeline |-> tl]
  ELSE LET today == utc_today.ord
           last_monday == today - weekday(today)
           last_week == last_monday - 7
           popped == tl[Len(tl)]
           last_month == popped.value[Len(popped.value)]
           last_month_adjusted ==
             IF last_month > last_week THEN last_week - 1
             ELSE IF last_month >= last_monday THEN last_monday - 1
             ELSE last_month
       IN [context |-> [empty |-> FALSE,
                        timeline |-> SubSeq(tl, 1, Len(tl) - 1),
                        this_week |-> last_monday,
                        last_week |-> last_week,
                        last_month |-> [real |-> last_month,
                                        adjusted |-> last_month_adjusted]],
           timeline |-> SubSeq(tl, 1, Len(tl) - 1)]

\* _timeline_context(tl): the context it returns and the OrderedDict tl as
\* the call leaves it.  An OrderedDict is the sequence of its items
\* [key, value], a date is its ordinal.
_timeline_context(tl) ==
  IF tl = <<>> THEN [context |-> EmptyContext, timeline |-> tl]
  ELSE LET today == utc_today.ord
           last_monday == today - weekday(today)
           last_week == last_monday - 7
           popped == tl[Len(tl)]
           last_month == popped.value[Len(popped.value)]
           last_month_adjusted ==
             IF last_month >= last_week THEN last_week - 1
             ELSE IF last_month >= last_monday THEN last_monday - 1
             ELSE last_month
       IN [context |-> [empty |-> FALSE,
                        timeline |-> SubSeq(tl, 1, Len(tl) - 1),
                        this_week |-> last_monday,
                        last_week |-> last_week,
                        last_month |-> [real |-> last_month,
                                        adjusted |-> last_month_adjusted]],
           timeline |-> SubSeq(tl, 1, Len(tl) - 1)]

\* the lists of dates an item of the catalog holds: one or two months
CatalogValues ==
  LET dates == (StartTick \div DayLen - MaxAge) .. (StartTick \div DayLen)
  IN {<<a>> : a \in dates} \cup {<<a, b>> : a, b \in dates}

\* the catalogs Channel.get_months_active() hands over: none, one or two
\* items, oldest first
Catalogs ==
  {<<>>}
    \cup {<<[key |-> "2024", value |-> v]>> : v \in CatalogValues}
    \cup {<<[key |-> "2023", value |-> v], [key |-> "2024", value |-> w]>> :
            v \in {<<a>> : a \in {StartTick \div DayLen - MaxAge}}, w \in CatalogValues}

\* _timeline_context is called on the OrderedDict held in timeline
TimelineContext ==
  /\ req' = [kind |-> "timeline"]
  /\ resp' = _timeline_context(timeline).context
  /\ timeline' = _timeline_context(timeline).timeline
  /\ UNCHANGED <<logs, now, cache, resolutions, shared>>

\* a catalog and a day for the calls on it
InitTimeline ==
  /\ logs = <<>>
  /\ now \in {StartTick + d * DayLen : d \in 0 .. MaxToday}
  /\ cache = <<>>
  /\ req = NoRequest
  /\ resp = NoResponse
  /\ timeline \in Catalogs
  /\ resolutions = <<>>
  /\ shared = NoShared

-----------------------------------------------------------------------------
(* The logger plugin *)

\* the names of the places a line comes from: the channel #c, and a nick
\* and a name with # elsewhere, which are those of a /query
ChannelNames ==
  {<<"#", "c">>, <<"b", "o">>, <<"c", "#">>}

\* the characters of "ACTION "
ActionPrefix ==
  <<"A", "C", "T", "I", "O", "N", " ">>

\* the texts of the lines: hi, Hi, !-x, the empty text, and behind ACTION
\* with a space: hi, !-x and ACTION !-x; ACTION!-x has no space
Texts ==
  {<<"h", "i">>, <<"H", "i">>, <<"!", "-", "x">>, <<>>,
   ActionPrefix \o <<"h", "i">>,
   ActionPrefix \o <<"!", "-", "x">>,
   ActionPrefix \o ActionPrefix \o <<"!", "-", "x">>,
   <<"A", "C", "T", "I", "O", "N", "!", "-", "x">>}

\* the lines the router hands to logit
Lines ==
  [_channel_name : ChannelNames, text : Texts, user : {ChannelNick},
   _command : {"PRIVMSG"}]

\* the values of self.config['ignore_prefix']: a list of patterns (items),
\* one pattern as a string (str), or None.  The patterns are !- (the default), h, the
\* empty pattern, the wildcard . and the parenthesis ( that is never closed.
ConfigValues ==
  {[type |-> "list", items |-> v, str |-> <<>>] :
     v \in {<<>>, <<<<"!", "-">>>>, <<<<"h">>, <<"!", "-">>>>, <<<<".">>>>, <<<<>>>>,
            <<<<"(">>>>, <<<<"!", "-">>, <<"(">>>>}}
    \cup {[type |-> "str", items |-> <<>>, str |-> v] : v \in {<<>>, <<"!", "-">>}}
    \cup {[type |-> "NoneType", items |-> <<>>, str |-> <<>>]}

\* bool(ignore_prefix): a list with items, or a string with characters
truth(config) ==
  \/ config.type = "list" /\ config.items # <<>>
  \/ config.type = "str" /\ config.str # <<>>

\* str.startswith
startswith(value, prefix) ==
  /\ Len(value) >= Len(prefix)
  /\ \A i \in 1 .. Len(prefix) : value[i] = prefix[i]

\* the case folding of re.IGNORECASE, for one character
IgnoreCase(c) ==
  IF c = "H" THEN "h" ELSE LowerChar(c)

\* re.compile raises re.error for the pattern: of the patterns of the model,
\* the one with an opening parenthesis
re_error(pattern) ==
  \E i \in 1 .. Len(pattern) : pattern[i] = "("

\* re.match(pattern, text, flags=re.IGNORECASE) is not None, for a pattern
\* that compiles: the pattern matches at the start of the text, a . matches
\* any character, any other character matches itself in either case
re_match(pattern, text) ==
  /\ Len(text) >= Len(pattern)
  /\ \A i \in 1 .. Len(pattern) :
       pattern[i] = "." \/ IgnoreCase(pattern[i]) = IgnoreCase(text[i])

RECURSIVE any_from(_, _, _)
\* any(...) over the prefixes from the i-th on: the generator is consumed
\* in order and stops at the first match; a pattern that does not compile
\* raises when it is reached
any_from(text, ignore_prefix, i) ==
  IF i > Len(ignore_prefix) THEN "False"
  ELSE IF re_error(ignore_prefix[i]) THEN "re.error"
  ELSE IF re_match(ignore_prefix[i], text) THEN "True"
  ELSE any_from(text, ignore_prefix, i + 1)

\* should_ignore_text: "True", "False", or the exception raised
should_ignore_text(text, ignore_prefix) ==
  any_from(text, ignore_prefix, 1)

\* Plugin.logit up to the decision: "created" when Log.objects.create is
\* called, "returned" when the line is passed over, or the exception raised
Plugin_logit(line, config) ==
  IF ~ startswith(line._channel_name, <<"#">>) THEN "returned"
  ELSE LET ignore_prefix ==
             IF ~ truth(config) THEN <<>>
             ELSE IF config.type # "list" THEN <<config.str>>
             ELSE config.items
           text == IF startswith(line.text, ActionPrefix)
                   THEN SubSeq(line.text, 8, Len(line.text))
                   ELSE line.text
           ignored == should_ignore_text(text, ignore_prefix)
       IN IF ignored = "False" THEN "created"
          ELSE IF ignored = "True" THEN "returned"
          ELSE ignored

\* what the interpreter makes of the module: Python 2 compiles it; Python 3,
\* which the f-strings of the views need, rejects the ur'' literal of the
\* route rule, and no line reaches logit
Interpreters ==
  {"python2", "python3"}

\* a line arrives at the logger: Plugin.logit runs on it, and when it gets
\* as far as Log.objects.create a row is stored with the instant of the line
LogLine ==
  \E line \in Lines, config \in ConfigValues, interpreter \in Interpreters :
    /\ req = NoRequest
    /\ Len(logs) < MaxLogs
    /\ req' = [kind |-> "line", line |-> line, config |-> config,
               outcome |-> IF interpreter = "python3" THEN "SyntaxError"
                           ELSE Plugin_logit(line, config)]
    /\ logs' = IF req'.outcome = "created"
               THEN Append(logs, [pk |-> Len(logs) + 1, timestamp |-> now,
                                  nick |-> line.user, command |-> line._command])
               ELSE logs
    /\ UNCHANGED <<now, cache, resp, timeline, resolutions, shared>>

-----------------------------------------------------------------------------
(* Permalink resolutions that overlap *)

\* the worker processes that serve SingleLogViewer.get
Workers ==
  1 .. MaxResolutions

\* requests for the permalink of the first message, in the HTML and in the
\* text format
ConcurrentRequests ==
  [kind : {"permalink"}, kwargs : [msg_pk : {"1"}],
   GET : [page : {NoArg}, tz : {NoArg, "Etc/GMT-12"}, msg : {NoArg}],
   format : {"", "text"}, is_ajax : {FALSE}]

\* resolutions with the entry of worker w set to state
Resolving(w, state) ==
  [v \in DOMAIN resolutions \cup {w} |-> IF v = w THEN state ELSE resolutions[v]]

\* SingleLogViewer.get up to the call of _permalink_to_log: the row is
\* fetched and the day is set
ResolveBegin(w, r) ==
  /\ w \notin DOMAIN resolutions
  /\ resolutions' =
       Resolving(w,
         IF int_fails(r.kwargs.msg_pk) \/ LogObjects(int(r.kwargs.msg_pk)) = <<>>
         THEN [r |-> r, pc |-> "done", response |-> Http404("No Log matches the given query.")]
         ELSE LET log == LogObjects(int(r.kwargs.msg_pk))[1]
              IN [r |-> r, pc |-> "cache_get", log |-> log,
                  date |-> [ord |-> log.timestamp \div DayLen, off |-> 0]])
  /\ UNCHANGED <<logs, now, cache, req, resp, timeline, shared>>

\* _permalink_to_log: cache.get, and the answer on a hit
ResolveCacheGet(w) ==
  /\ w \in DOMAIN resolutions
  /\ resolutions[w].pc = "cache_get"
  /\ LET res == resolutions[w]
         cached == cache_get(cache_key(res.log))
     IN resolutions' =
          Resolving(w,
            IF cached.url # None
            THEN [r |-> res.r, pc |-> "done",
                  response |-> redirect(Link(cached.url,
                                             [res.r.GET EXCEPT !.msg = cached.params.msg,
                                                               !.page = cached.params.page]),
                                        TRUE)]
            ELSE [res EXCEPT !.pc = "scan"])
  /\ UNCHANGED <<logs, now, cache, req, resp, timeline, shared>>

\* _permalink_to_log: the loop over the pages of the day
ResolveScan(w) ==
  /\ w \in DOMAIN resolutions
  /\ resolutions[w].pc = "scan"
  /\ LET res == resolutions[w]
         object_list == get_queryset(res.date)
         n == ScanPages(object_list, res.log, 1, num_pages(Len(object_list), TRUE))
     IN resolutions' =
          Resolving(w,
            IF n = 0 THEN [r |-> res.r, pc |-> "done", response |-> Http404("")]
            ELSE [r |-> res.r, pc |-> "cache_set", log |-> res.log,
                  url |-> channel_date_url(res.r, res.date),
                  params |-> [msg |-> Str(res.log.pk), page |-> Str(n)]])
  /\ UNCHANGED <<logs, now, cache, req, resp, timeline, shared>>

\* _permalink_to_log: cache.set, and the answer after a scan
ResolveCacheSet(w) ==
  /\ w \in DOMAIN resolutions
  /\ resolutions[w].pc = "cache_set"
  /\ LET res == resolutions[w]
     IN /\ cache' = cache_set(cache_key(res.log), [url |-> res.url, params |-> res.params],
                              "None")
        /\ resolutions' =
             Resolving(w,
               [r |-> res.r, pc |-> "done",
                response |-> redirect(Link(res.url, [res.r.GET EXCEPT !.msg = res.params.msg,
                                                                      !.page = res.params.page]),
                                      TRUE)])
  /\ UNCHANGED <<logs, now, req, resp, timeline, shared>>

Init ==
  /\ logs = <<>>
  /\ now = StartTick
  /\ cache = <<>>
  /\ req = NoRequest
  /\ resp = NoResponse
  /\ timeline = <<>>
  /\ resolutions = <<>>
  /\ shared = NoShared

-----------------------------------------------------------------------------
(* What the properties speak of *)

VisibleLogs ==
  {logs[i] : i \in {j \in 1 .. Len(logs) : visible_commands_filter(logs[j])}}

\* the visible messages of the day that starts at instant start
DayLogs(start) ==
  {m \in VisibleLogs : start <= m.timestamp /\ m.timestamp < start + DayLen}

\* pageCount of the spec for the day that starts at instant start
pageCount(start) ==
  (Cardinality(DayLogs(start)) + paginate_by - 1) \div paginate_by

\* the ordinal of the date of instant t in the zone of offset off
LocalOrd(t, off) ==
  (t + off) \div DayLen

\* the day and the page a link leads to
LinkTarget(link) ==
  [ord |-> ymd2ord(int(link.year), int(link.month), int(link.day)), page |-> int(link.page)]

IsLink(link) ==
  link \notin {EmptyString, None}

DayPage ==
  req.kind = "day" /\ resp.status = 200

\* C1: on a rendered day page the next link is the next page of the day
\* while there is one; after the last page (or on an empty day) it is page 1
\* of the day of the earliest visible message after the day; there is no
\* next link when no such message exists, and is_current is set exactly then.
C1_NextLink ==
  DayPage =>
    LET start == Instant(resp.date)
        later == {m \in VisibleLogs : m.timestamp >= start + DayLen}
        first == CHOOSE m \in later : \A x \in later : m.timestamp <= x.timestamp
    IN /\ resp.number < pageCount(start) =>
            /\ IsLink(resp.next_page)
            /\ LinkTarget(resp.next_page) = [ord |-> resp.date.ord, page |-> resp.number + 1]
       /\ (resp.number >= pageCount(start) /\ later # {}) =>
            /\ IsLink(resp.next_page)
            /\ LinkTarget(resp.next_page) =
                 [ord |-> LocalOrd(first.timestamp, request_timezone(req)), page |-> 1]
       /\ (resp.number >= pageCount(start) /\ later = {}) => resp.next_page = EmptyString
       /\ resp.is_current <=> ~ IsLink(resp.next_page)

\* the last page of a day with messages links over an empty day to page 1
C1_Witness ==
  /\ DayPage
  /\ resp.message_list # <<>>
  /\ resp.number = pageCount(Instant(resp.date))
  /\ IsLink(resp.next_page)
  /\ LinkTarget(resp.next_page).ord > resp.date.ord + 1
  /\ LinkTarget(resp.next_page).page = 1

\* C2: on a rendered day page the previous link is the previous page of the
\* day when the page is not the first; on the first page it is the last page
\* of the day of the latest visible message before the day, and there is no
\* previous link when no such message exists.
C2_PreviousLink ==
  DayPage =>
    LET start == Instant(resp.date)
        off == request_timezone(req)
        earlier == {m \in VisibleLogs : m.timestamp < start}
        last == CHOOSE m \in earlier : \A x \in earlier : m.timestamp >= x.timestamp
        P == LocalOrd(last.timestamp, off)
    IN /\ resp.number > 1 =>
            /\ IsLink(resp.prev_page)
            /\ LinkTarget(resp.prev_page) = [ord |-> resp.date.ord, page |-> resp.number - 1]
       /\ (resp.number <= 1 /\ earlier # {}) =>
            /\ IsLink(resp.prev_page)
            /\ LinkTarget(resp.prev_page) = [ord |-> P, page |-> pageCount(P * DayLen - off)]
       /\ (resp.number <= 1 /\ earlier = {}) => ~ IsLink(resp.prev_page)

\* the first page of a day links back over an empty day to the last page,
\* not the first, of an earlier day
C2_Witness ==
  /\ DayPage
  /\ resp.number = 1
  /\ IsLink(resp.prev_page)
  /\ LinkTarget(resp.prev_page).ord < resp.date.ord - 1
  /\ LinkTarget(resp.prev_page).page > 1

\* the request names a date that exists
DateGiven ==
  /\ req.kind = "day"
  /\ \A field \in {"year", "month", "day"} :
        req.kwargs[field] # NoArg /\ ~ int_fails(req.kwargs[field])
  /\ ~ DateFails(int(req.kwargs.year), int(req.kwargs.month), int(req.kwargs.day))

\* the day the request names, as the instant it starts at
RequestedStart ==
  ymd2ord(int(req.kwargs.year), int(req.kwargs.month), int(req.kwargs.day)) * DayLen
    - request_timezone(req)

\* C3: a request that names a day without visible messages and no page,
\* while the channel has visible messages, is redirected to page 1 of the day of the nearest visible message:
\* the latest one before the day when there is one, else the earliest after.
C3_EmptyDayRedirects ==
  (DateGiven /\ req.GET.page = NoArg /\ DayLogs(RequestedStart) = {} /\ VisibleLogs # {}) =>
    LET earlier == {m \in VisibleLogs : m.timestamp < RequestedStart}
        nearest == IF earlier # {}
                   THEN CHOOSE m \in earlier : \A x \in earlier : m.timestamp >= x.timestamp
                   ELSE CHOOSE m \in VisibleLogs : \A x \in VisibleLogs : m.timestamp <= x.timestamp
    IN /\ resp.status = 302
       /\ resp.location.year = Str(ord2ymd(LocalOrd(nearest.timestamp, 0)).year)
       /\ resp.location.month = Pad2(ord2ymd(LocalOrd(nearest.timestamp, 0)).month)
       /\ resp.location.day = Pad2(ord2ymd(LocalOrd(nearest.timestamp, 0)).day)
       /\ resp.location.page \in {NoArg, "1"}

PermalinkRequested ==
  req.kind = "permalink"

\* the message a permalink request names is stored
RequestedLogExists(r) ==
  /\ ~ int_fails(r.kwargs.msg_pk)
  /\ \E i \in 1 .. Len(logs) : logs[i].pk = int(r.kwargs.msg_pk)

RequestedLog(r) ==
  logs[CHOOSE i \in 1 .. Len(logs) : logs[i].pk = int(r.kwargs.msg_pk)]

\* the start of the UTC day of message m
UtcStart(m) ==
  (m.timestamp \div DayLen) * DayLen

\* the page of m among the visible messages of its UTC day, taken in
\* ascending order paginate_by at a time
PageOf(m) ==
  LET rank == Cardinality({x \in DayLogs(UtcStart(m)) :
                             \/ x.timestamp < m.timestamp
                             \/ x.timestamp = m.timestamp /\ x.pk <= m.pk})
  IN (rank + paginate_by - 1) \div paginate_by

\* the day and the page a cache entry stands for
EntryTarget(entry) ==
  [ord |-> ymd2ord(int(entry.url.year), int(entry.url.month), int(entry.url.day)),
   page |-> int(entry.params.page)]

\* C4: a permalink to a visible message that is not served from the cache is
\* answered with the UTC day of the message and the one page of that day
\* that holds it; the scan fetches the pages from page 1 up to that page
\* and no further, and the result is cached under the message, never to
\* expire.
C4_PermalinkScan ==
  (/\ PermalinkRequested
   /\ RequestedLogExists(req)
   /\ visible_commands_filter(RequestedLog(req))
   /\ resp.pages_scanned > 0) =>
    LET m == RequestedLog(req)
        target == [ord |-> m.timestamp \div DayLen, page |-> PageOf(m)]
    IN /\ resp.status = 301
       /\ LinkTarget(resp.location) = target
       /\ resp.location.msg = Str(m.pk)
       /\ resp.pages_scanned = PageOf(m)
       /\ m.pk \in DOMAIN cache
       /\ EntryTarget(cache[m.pk]) = target
       /\ cache[m.pk].timeout = "None"

\* a message on the second page of its day was found by a scan
C4_Witness ==
  /\ PermalinkRequested
  /\ resp.status = 301
  /\ resp.pages_scanned = 2
  /\ resp.location.page = "2"

\* C5: a permalink to a message that has a cache entry is answered with the
\* day and page of the entry without fetching a page; an entry, once
\* written, is never changed or dropped, and the entry a resolution writes
\* is the day and page it answers with.
C5_PermalinkIdempotent ==
  [][(req = NoRequest /\ req'.kind = "permalink") =>
       /\ (~ int_fails(req'.kwargs.msg_pk) /\ int(req'.kwargs.msg_pk) \in DOMAIN cache) =>
            /\ resp'.status = 301
            /\ resp'.pages_scanned = 0
            /\ LinkTarget(resp'.location) = EntryTarget(cache[int(req'.kwargs.msg_pk)])
            /\ cache' = cache
       /\ \A k \in DOMAIN cache : k \in DOMAIN cache' /\ cache'[k] = cache[k]
       /\ \A k \in DOMAIN cache' \ DOMAIN cache :
            /\ k = int(req'.kwargs.msg_pk)
            /\ resp'.status = 301
            /\ EntryTarget(cache'[k]) = LinkTarget(resp'.location)]_vars

\* a message of a second page is answered from the cache
C5_Witness ==
  /\ PermalinkRequested
  /\ resp.status = 301
  /\ resp.pages_scanned = 0
  /\ resp.location.page = "2"

\* the page a scan of the day of stored message m finds m on now (0: none)
FreshScan(m) ==
  LET object_list == get_queryset([ord |-> m.timestamp \div DayLen, off |-> 0])
  IN ScanPages(object_list, m, 1, num_pages(Len(object_list), TRUE))

\* C6: every cache entry names the UTC day of its message and the page a
\* scan of that day finds the message on in the present state.
C6_CacheStaysFresh ==
  \A pk \in DOMAIN cache :
    /\ \E i \in 1 .. Len(logs) : logs[i].pk = pk
    /\ LET m == logs[CHOOSE i \in 1 .. Len(logs) : logs[i].pk = pk]
       IN EntryTarget(cache[pk]) = [ord |-> m.timestamp \div DayLen, page |-> FreshScan(m)]

\* a cached message shares its day with a later message that lies on a
\* later page and has no entry
C6_Witness ==
  \E pk \in DOMAIN cache :
    \E i \in 1 .. Len(logs) :
      /\ logs[i].pk > pk
      /\ logs[i].pk \notin DOMAIN cache
      /\ visible_commands_filter(logs[i])
      /\ UtcStart(logs[i]) = UtcStart(logs[pk])
      /\ PageOf(logs[i]) > PageOf(logs[pk])

\* C7: a permalink to a message that is not stored, or that is not among
\* the visible messages of its day, is answered with 404; a 404 answer
\* leaves the cache as it was.
C7_PermalinkNotFound ==
  [][(req = NoRequest /\ req'.kind = "permalink") =>
       /\ ~ RequestedLogExists(req') => resp'.status = 404
       /\ (RequestedLogExists(req') /\
             RequestedLog(req') \notin DayLogs(UtcStart(RequestedLog(req')))) =>
            resp'.status = 404
       /\ resp'.status = 404 => cache' = cache]_vars

\* a stored but hidden message was asked for while the cache held entries
C7_Witness ==
  /\ PermalinkRequested
  /\ resp.status = 404
  /\ RequestedLogExists(req)
  /\ ~ visible_commands_filter(RequestedLog(req))
  /\ resp.pages_scanned > 0
  /\ DOMAIN cache # {}

\* the page number the request asks for
RequestedPage ==
  IF req.GET.page = NoArg THEN 1 ELSE int(req.GET.page)

PageBeyondLast ==
  /\ DateGiven
  /\ req.GET.page # "last"
  /\ RequestedPage > pageCount(RequestedStart)
  /\ \A m \in VisibleLogs : m.timestamp < RequestedStart + DayLen

SomeDateField ==
  \E field \in {"year", "month", "day"} : req.kwargs[field] # NoArg

AllDateFields ==
  \A field \in {"year", "month", "day"} : req.kwargs[field] # NoArg

\* C9 as the spec states it: a request that gives some but not all of
\* year, month and day, or gives fields that are no integers or no date of
\* the calendar, is answered with the error "Invalid date.".
C9_PartialDateIsInvalid ==
  (req.kind = "day" /\ SomeDateField /\ ~ DateGiven) => resp = Http404("Invalid date.")

\* C9: a request that gives year, month and day is answered with the error
\* "Invalid date." when a field is no integer or the three are no date of
\* the calendar; a request that lacks any of the three is answered with the
\* last page of today's UTC day.
C9_DateArguments ==
  req.kind = "day" =>
    /\ (AllDateFields /\ ~ DateGiven) => resp = Http404("Invalid date.")
    /\ ~ AllDateFields =>
         LET count == pageCount((now \div DayLen) * DayLen)
         IN /\ resp.status = 200
            /\ resp.date = [ord |-> now \div DayLen, off |-> 0]
            /\ resp.number = IF count > 1 THEN count ELSE 1

\* a request with a year and a month but no day showed today's messages
C9_Witness ==
  /\ req.kind = "day"
  /\ SomeDateField
  /\ ~ AllDateFields
  /\ resp.status = 200
  /\ resp.message_list # <<>>

\* link without the tz parameter it carries over from the request
WithoutTz(link) ==
  [link EXCEPT !.tz = ""]

\* two answers to a day request agree but for the tz parameter in links
SameAnswer(a, b) ==
  /\ a.status = b.status
  /\ a.status = 404 => a.reason = b.reason
  /\ a.status = 200 =>
       /\ Instant(a.date) = Instant(b.date)
       /\ a.number = b.number
       /\ a.message_list = b.message_list
       /\ WithoutTz(a.next_page) = WithoutTz(b.next_page)
       /\ WithoutTz(a.prev_page) = WithoutTz(b.prev_page)
       /\ WithoutTz(a.current_page) = WithoutTz(b.current_page)
       /\ a.is_current = b.is_current

\* C10: a day request whose tz parameter is missing or names no zone is
\* answered as the same request with tz=UTC is: same day, same messages,
\* same link targets; it never fails because of the parameter.
C10_UnknownTimezoneIsUTC ==
  (req.kind = "day" /\ req.GET.tz \notin DOMAIN KnownZones) =>
    SameAnswer(resp, DayLogViewer_get([req EXCEPT !.GET.tz = "UTC"]))

\* an unknown zone was given and the page shown is not the one the other
\* zone of the model would show
C10_Witness ==
  /\ DayPage
  /\ req.GET.tz = "Mars/Phobos"
  /\ resp.message_list # <<>>
  /\ DayLogViewer_get([req EXCEPT !.GET.tz = "Etc/GMT-12"]).status = 200
  /\ DayLogViewer_get([req EXCEPT !.GET.tz = "Etc/GMT-12"]).message_list # resp.message_list

\* the rows of nick, under any of the forms nick, nick_ and nick|suffix,
\* with one of the commands
RowsOf(nick, commands) ==
  {logs[i] : i \in {j \in 1 .. Len(logs) :
                      /\ logs[j].command \in commands
                      /\ \/ iexact(logs[j].nick, nick)
                         \/ iexact(logs[j].nick, nick \o <<"_">>)
                         \/ istartswith(logs[j].nick, nick \o <<"|">>)}}

\* the instant of the most recent QUIT or PART of nick
LastExit(nick) ==
  CHOOSE t \in {m.timestamp : m \in RowsOf(nick, {"QUIT", "PART"})} :
    \A m \in RowsOf(nick, {"QUIT", "PART"}) : m.timestamp <= t

\* the rows of the channel with a timestamp in [from, to], in ascending order
Window(from, to) ==
  Pks(OrderByTimestamp(
        SelectSeq(logs, LAMBDA m : from <= m.timestamp /\ m.timestamp <= to), FALSE))

\* C11: for a nick that has left at T1, the missed-activity view returns the
\* rows of the channel with a timestamp in [T1 - 1ms, T2], ascending, where
\* T2 is the earliest JOIN of the nick after T1; in [T1 - 1ms, infinity)
\* when no JOIN follows.
C11_MissedWindow ==
  (req.kind = "missed" /\ RowsOf(req.kwargs.nick, {"QUIT", "PART"}) # {}) =>
    LET T1 == LastExit(req.kwargs.nick)
        joins == {m.timestamp : m \in {x \in RowsOf(req.kwargs.nick, {"JOIN"}) :
                                          x.timestamp > T1}}
        T2 == IF joins = {} THEN StartTick + MaxTick
              ELSE CHOOSE t \in joins : \A u \in joins : t <= u
    IN /\ resp.status = 200
       /\ resp.message_list = Window(T1 - Millisecond, T2)

\* C12: the missed-activity view answers 404 "User hasn't left room" exactly
\* when the channel holds no QUIT or PART of the nick, and answers with the
\* rows of a window whenever it holds one.
C12_NotFoundIffNeverLeft ==
  req.kind = "missed" =>
    /\ resp = Http404("User hasn't left room")
         <=> RowsOf(req.kwargs.nick, {"QUIT", "PART"}) = {}
    /\ RowsOf(req.kwargs.nick, {"QUIT", "PART"}) # {} => resp.status = 200

\* d is the Monday of the week of day today
MondayOf(today, d) ==
  /\ d \in today - 6 .. today
  /\ (d - ymd2ord(2024, 2, 26)) % 7 = 0

\* C13: a call of _timeline_context on a non-empty catalog returns the
\* Monday of the current UTC week as this_week and the Monday before as
\* last_week, the last date r of the last item as the real last month, and
\* as the adjusted one: last_week - 1 day when r >= last_week (r equal to
\* last_week included), else this_week - 1 day when r >= this_week, else r.
C13_TimelineAdjustment ==
  [][(req'.kind = "timeline" /\ timeline # <<>>) =>
       LET r == timeline[Len(timeline)].value[Len(timeline[Len(timeline)].value)]
           today == now \div DayLen
           this_week_start == CHOOSE d \in today - 6 .. today : MondayOf(today, d)
           last_week_start == this_week_start - 7
       IN /\ resp'.this_week = this_week_start
          /\ resp'.last_week = last_week_start
          /\ resp'.last_month.real = r
          /\ resp'.last_month.adjusted =
               IF r >= last_week_start THEN last_week_start - 1
               ELSE IF r >= this_week_start THEN this_week_start - 1
               ELSE r]_vars

\* the last month is the very day last week started and was adjusted to the
\* day before
C13_Witness ==
  /\ req.kind = "timeline"
  /\ ~ resp.empty
  /\ resp.last_month.real = resp.last_week
  /\ resp.last_month.adjusted = resp.last_week - 1

\* C14: a call of _timeline_context leaves the catalog it is given as it
\* was, and a second call on the same catalog at the same instant returns
\* what the first returned.
C14_TimelinePure ==
  [][req'.kind = "timeline" =>
       /\ timeline' = timeline
       /\ req.kind = "timeline" => resp' = resp]_vars

\* C21: after a call of _timeline_context on a non-empty catalog, whatever
\* the day, the adjusted last-month date is never later than the real one,
\* and when the two differ it is strictly earlier than the start of last
\* week and than the start of this week.
C21_AdjustedBeforeWeeks ==
  (req.kind = "timeline" /\ ~ resp.empty) =>
    LET today == now \div DayLen
        this_week_start == CHOOSE d \in today - 6 .. today : MondayOf(today, d)
        last_week_start == this_week_start - 7
    IN /\ resp.last_month.adjusted <= resp.last_month.real
       /\ resp.last_month.adjusted # resp.last_month.real =>
            /\ resp.last_month.adjusted < last_week_start
            /\ resp.last_month.adjusted < this_week_start

\* the last month is a day of the current week and was moved to before the
\* start of last week
C21_Witness ==
  /\ req.kind = "timeline"
  /\ ~ resp.empty
  /\ resp.last_month.real >= resp.this_week
  /\ resp.last_month.adjusted # resp.last_month.real
  /\ resp.last_month.adjusted < resp.last_week

\* the text of a line without one leading "ACTION "
WithoutAction(text) ==
  IF Len(text) >= 7 /\ SubSeq(text, 1, 7) = ActionPrefix
  THEN SubSeq(text, 8, Len(text))
  ELSE text

\* the ignore prefixes a configuration stands for: those of the list, the
\* one string, or none when nothing is configured
ConfiguredPrefixes(config) ==
  IF config.type = "list" THEN {config.items[i] : i \in 1 .. Len(config.items)}
  ELSE IF config.type = "str" /\ config.str # <<>> THEN {config.str}
  ELSE {}

\* the text matches the prefix, as re.match with re.IGNORECASE has it; a
\* prefix that is no regular expression matches no text
MatchesPrefix(text, prefix) ==
  ~ re_error(prefix) /\ re_match(prefix, text)

\* C22: a line from a channel whose name starts with # and whose text,
\* without a leading "ACTION ", matches none of the configured ignore
\* prefixes appends exactly one Log row, that of the line; any other line
\* leaves the store as it was.  A single string counts as a list of one,
\* an empty configuration as no prefix.
C22_LoggerAppends ==
  [][req'.kind = "line" =>
       LET line == req'.line
           logged ==
             /\ line._channel_name # <<>>
             /\ line._channel_name[1] = "#"
             /\ \A prefix \in ConfiguredPrefixes(req'.config) :
                  ~ MatchesPrefix(WithoutAction(line.text), prefix)
       IN IF logged
          THEN logs' = Append(logs, [pk |-> Len(logs) + 1, timestamp |-> now,
                                     nick |-> line.user, command |-> line._command])
          ELSE logs' = logs]_vars

\* the cache entry a resolution of request r for stored message m writes
\* when it runs alone on an empty cache
WrittenAlone(r, m) ==
  [url |-> [view |-> IF r.format = "text" THEN "log_day_text" ELSE "log_day",
            year |-> Str(ord2ymd(m.timestamp \div DayLen).year),
            month |-> Pad2(ord2ymd(m.timestamp \div DayLen).month),
            day |-> Pad2(ord2ymd(m.timestamp \div DayLen).day)],
   params |-> [msg |-> Str(m.pk), page |-> Str(PageOf(m))],
   timeout |-> "None"]

\* C15: whatever the interleaving of the steps of overlapping resolutions
\* of a message, each resolution that answers with a redirect names the day
\* and the page of the message, and the cache entry of the message is the
\* entry any one of the resolutions would have written alone.
C15_ConcurrentResolutions ==
  \A w \in DOMAIN resolutions :
    LET res == resolutions[w]
        pk == int(res.r.kwargs.msg_pk)
    IN /\ (res.pc = "done" /\ res.response.status = 301) =>
            LinkTarget(res.response.location) =
              [ord |-> logs[pk].timestamp \div DayLen, page |-> PageOf(logs[pk])]
       /\ pk \in DOMAIN cache => cache[pk] = WrittenAlone(res.r, logs[pk])

\* C16: for the day a request shows, _get_previous_date is the local day
\* of the latest visible message before the start of the day and
\* _get_next_date the local day of the earliest visible message at or after
\* its end; each is None exactly when there is no such message, and no
\* visible message lies between the day shown and the day returned.
C16_DayResolver ==
  DayPage =>
    LET off == request_timezone(req)
        start == Instant(resp.date)
        earlier == {m \in VisibleLogs : m.timestamp < start}
        later == {m \in VisibleLogs : m.timestamp >= start + DayLen}
        latest == CHOOSE m \in earlier : \A x \in earlier : m.timestamp >= x.timestamp
        earliest == CHOOSE m \in later : \A x \in later : m.timestamp <= x.timestamp
        previous == _get_previous_date(req, resp.date)
        next == _get_next_date(req, resp.date)
    IN /\ previous = NoneDate <=> earlier = {}
       /\ next = NoneDate <=> later = {}
       /\ earlier # {} =>
            /\ previous = [ord |-> LocalOrd(latest.timestamp, off), off |-> off]
            /\ \A m \in VisibleLogs :
                 ~ (Instant(previous) + DayLen <= m.timestamp /\ m.timestamp < start)
       /\ later # {} =>
            /\ next = [ord |-> LocalOrd(earliest.timestamp, off), off |-> off]
            /\ \A m \in VisibleLogs :
                 ~ (start + DayLen <= m.timestamp /\ m.timestamp < Instant(next))

\* east of UTC, a day between two days with messages is shown and both
\* resolvers answer with a day that is not the UTC date of its message
C16_Witness ==
  /\ DayPage
  /\ request_timezone(req) # 0
  /\ resp.message_list = <<>>
  /\ _get_previous_date(req, resp.date) # NoneDate
  /\ _get_next_date(req, resp.date) # NoneDate
  /\ \E m \in VisibleLogs :
       /\ m.timestamp >= Instant(resp.date) + DayLen
       /\ _get_next_date(req, resp.date).ord # m.timestamp \div DayLen

\* C17: the day view requested at the target of a permalink redirect, with
\* the query parameters the redirect carries, shows a page that holds the
\* message.
C17_PermalinkMatchesDayView ==
  (PermalinkRequested /\ resp.status = 301) =>
    LET page == DayLogViewer_get(FollowLink(resp.location))
    IN /\ page.status = 200
       /\ \E i \in DOMAIN page.message_list : page.message_list[i] = int(req.kwargs.msg_pk)

\* the page of a day named by its date
DatedPage ==
  DayPage /\ DateGiven

\* C18: on a page with messages of a day named by its date, the previous
\* link of the page the next link leads to leads back to the page, and the
\* next link of the page the previous link leads to leads back to the page.
C18_LinksInverse ==
  (DatedPage /\ resp.message_list # <<>>) =>
    LET here == [ord |-> resp.date.ord, page |-> resp.number]
        Q == DayLogViewer_get(FollowLink(resp.next_page))
        P == DayLogViewer_get(FollowLink(resp.prev_page))
    IN /\ IsLink(resp.next_page) =>
            /\ Q.status = 200
            /\ IsLink(Q.prev_page)
            /\ LinkTarget(Q.prev_page) = here
       /\ IsLink(resp.prev_page) =>
            /\ P.status = 200
            /\ IsLink(P.next_page)
            /\ LinkTarget(P.next_page) = here

RECURSIVE Walk(_, _)
\* the pages met from request r on by following next links, at most fuel
\* times: the messages seen, in the order seen, and whether every page was
\* rendered with messages and the last one has no next link
Walk(r, fuel) ==
  LET page == DayLogViewer_get(r)
  IN IF page.status # 200 THEN [ok |-> FALSE, seen |-> <<>>]
     ELSE IF page.message_list = <<>> THEN [ok |-> FALSE, seen |-> <<>>]
     ELSE IF ~ IsLink(page.next_page) THEN [ok |-> TRUE, seen |-> page.message_list]
     ELSE IF fuel = 0 THEN [ok |-> FALSE, seen |-> page.message_list]
     ELSE LET rest == Walk(FollowLink(page.next_page), fuel - 1)
          IN [ok |-> rest.ok, seen |-> page.message_list \o rest.seen]

\* the request of page 1 of the day with ordinal ord, in the zone named tz
FirstPageOf(ord, tz) ==
  LET r == [kind |-> "day", kwargs |-> [year |-> NoArg, month |-> NoArg, day |-> NoArg],
            GET |-> [page |-> NoArg, tz |-> tz, msg |-> NoArg],
            format |-> "", is_ajax |-> FALSE, is_anonymous |-> TRUE]
  IN FollowLink(Link(channel_date_url(r, [ord |-> ord, off |-> 0]),
                     [r.GET EXCEPT !.page = "1"]))

\* the earliest day whose first page is rendered with messages in the zone
\* named tz, among the days around the UTC dates of the messages
EarliestDay(tz) ==
  LET around == {m.timestamp \div DayLen + k : m \in VisibleLogs, k \in {-1, 0, 1}}
      shown == {d \in around :
                  LET page == DayLogViewer_get(FirstPageOf(d, tz))
                  IN page.status = 200 /\ page.message_list # <<>>}
  IN CHOOSE d \in shown : \A x \in shown : d <= x

\* the walk that starts at page 1 of the earliest day with messages, in the
\* zone named tz
WalkFromStart(tz) ==
  Walk(FirstPageOf(EarliestDay(tz), tz), Cardinality(VisibleLogs))

\* C19: while the store is not being read by a request, in each zone,
\* following next links from page 1 of the earliest day with messages meets
\* only rendered pages with messages, ends within as many steps as there
\* are visible messages on a page without next link, and has then seen
\* every visible message once, in ascending order.
C19_ForwardWalk ==
  (VisibleLogs # {} /\ req = NoRequest) =>
    \A tz \in {NoArg, "Etc/GMT-12", "Pacific/Tarawa"} :
      /\ WalkFromStart(tz).ok
      /\ WalkFromStart(tz).seen =
           Pks(OrderByTimestamp(SelectSeq(logs, visible_commands_filter), FALSE))

\* C20: a rendered day page is marked public when it has a next link and
\* the user is anonymous, and private otherwise; a page that was marked
\* public has, whatever was appended since and whatever the time, the same
\* messages and the same previous and next links when it is requested
\* again.
C20_PublicPagesAreFinal ==
  /\ \A r \in UserRequests :
       LET page == DayLogViewer_get(r)
       IN page.status = 200 =>
            /\ page.cache_control = "public" <=> (IsLink(page.next_page) /\ r.is_anonymous)
            /\ page.cache_control = "private" <=>
                 ~ (IsLink(page.next_page) /\ r.is_anonymous)
  /\ shared # NoShared =>
       LET page == DayLogViewer_get(shared.r)
       IN /\ page.status = 200
          /\ page.message_list = shared.response.message_list
          /\ page.next_page = shared.response.next_page
          /\ page.prev_page = shared.response.prev_page

\* a public page with messages is held that was fetched on an earlier day
\* than today, and a message of today is stored
C20_Witness ==
  /\ shared # NoShared
  /\ shared.response.message_list # <<>>
  /\ LinkTarget(shared.response.current_page).ord < now \div DayLen
  /\ \E m \in VisibleLogs : m.timestamp \div DayLen = now \div DayLen

NextDay ==
  \/ Tick
  \/ \E command \in Commands : HiddenWithinBound(command) /\ logit(ChannelNick, command)
  \/ DayGet
  \/ Respond

SpecDay ==
  Init /\ [][NextDay]_vars

NextPermalink ==
  \/ Tick
  \/ \E command \in Commands : HiddenWithinBound(command) /\ logit(ChannelNick, command)
  \/ PermalinkGet
  \/ Respond

SpecPermalink ==
  Init /\ [][NextPermalink]_vars

NextMissed ==
  \/ Tick
  \/ \E nick \in StoredNicks, command \in MissedCommands : logit(nick, command)
  \/ MissedGet
  \/ Respond

SpecMissed ==
  Init /\ [][NextMissed]_vars

NextTimeline ==
  TimelineContext

SpecTimeline ==
  InitTimeline /\ [][NextTimeline]_vars

NextConcurrent ==
  \/ Tick
  \/ logit(ChannelNick, "PRIVMSG")
  \/ \E w \in Workers, r \in ConcurrentRequests : ResolveBegin(w, r)
  \/ \E w \in Workers : ResolveCacheGet(w)
  \/ \E w \in Workers : ResolveScan(w)
  \/ \E w \in Workers : ResolveCacheSet(w)

SpecConcurrent ==
  Init /\ [][NextConcurrent]_vars

NextNav ==
  \/ Tick
  \/ \E command \in Commands : HiddenWithinBound(command) /\ logit(ChannelNick, command)
  \/ NavGet
  \/ Respond

SpecNav ==
  Init /\ [][NextNav]_vars

NextCacheControl ==
  \/ Tick
  \/ logit(ChannelNick, "PRIVMSG")
  \/ SharedCacheFetch

SpecCacheControl ==
  Init /\ [][NextCacheControl]_vars

NextLogger ==
  \/ Tick
  \/ LogLine
  \/ Respond

SpecLogger ==
  Init /\ [][NextLogger]_vars

====
